---- MODULE Spec2Model ----
(***************************************************************************)
(* Atmospheric-state interpolation (isofit/utils/atm_interpolation.py).     *)
(*                                                                         *)
(* atm_interpolation creates the output raster, starts a ray cluster, cuts  *)
(* the target lines into sections, dispatches one _run_chunk task per       *)
(* section, waits for all of them with ray.get and then smooths the raster. *)
(* _run_chunk walks its lines in raster order, fits (or reuses) a local     *)
(* regression per pixel and writes each finished line into the raster.      *)
(*                                                                         *)
(* Numbers: coordinates and reference states are small integers; the fit    *)
(* is carried in exact rational arithmetic (numerators over the            *)
(* determinant of the normal equations) where the program uses float64.     *)
(* Scaled coordinates are kept in units of the scaling vector               *)
(* loc_scaling = (1e6, 1e6, 0.01), so a scaled latitude of 3 stands for     *)
(* 3e6 and a scaled elevation of 3 for 0.03.                                *)
(***************************************************************************)
EXTENDS Integers, Sequences, FiniteSets, TLC

\* ------------------------------------------------------------------------
\* Bounds of the model
\* ------------------------------------------------------------------------
MaxLines == 5       \* target rasters have 1..MaxLines lines
NSamples == 2       \* samples per target line
MaxCores == 3       \* CPUs the ray cluster may report
NNeighbors == 3     \* nneighbors handed to tree.query

\* ------------------------------------------------------------------------
\* Program constants
\* ------------------------------------------------------------------------
DefaultNodata == -9999      \* default of the nodata_value parameter
SmoothNull == -9999         \* the literal the smoothing mask compares with
ValidFloor == -5            \* use = yv[:, i] > -5
AllCores == -1              \* default of the n_cores parameter
DefaultSigma == 2           \* default of gaussian_smoothing_sigma

\* ------------------------------------------------------------------------
\* Small arithmetic helpers
\* ------------------------------------------------------------------------
Abs(a) == IF a < 0 THEN -a ELSE a

Min(a, b) == IF a < b THEN a ELSE b

RECURSIVE GCD(_, _)
GCD(a, b) == IF b = 0 THEN Abs(a) ELSE GCD(b, a % b)

\* a rational number num/den in lowest terms with a positive denominator
Rat(num, den) ==
    LET g == GCD(Abs(num), Abs(den))
        s == IF den < 0 THEN -1 ELSE 1
    IN  [t |-> "num", n |-> s * (num \div g), d |-> s * (den \div g)]

Num(v) == [t |-> "num", n |-> v, d |-> 1]

NaN == [t |-> "nan", n |-> 0, d |-> 0]

RECURSIVE SumOver(_, _)
\* sum of f[e] over the finite set S
SumOver(S, f) ==
    IF S = {} THEN 0
    ELSE LET e == CHOOSE x \in S : TRUE
         IN  f[e] + SumOver(S \ {e}, f)

\* ------------------------------------------------------------------------
\* The reference grid (fixed for the run, read-only for every worker)
\* ------------------------------------------------------------------------
\* reference_state_img.metadata['band names'], split at x[:4]
BandNames ==
    << [prefix |-> "RFL_", rest |-> "440"],
       [prefix |-> "H2OS", rest |-> "TR"],
       [prefix |-> "AOT5", rest |-> "50"] >>

\* atm_bands = np.where([x[:4] != 'RFL_' for x in band names])[0]
atm_bands ==
    LET keep(i) == BandNames[i].prefix # "RFL_"
        RECURSIVE Collect(_)
        Collect(i) == IF i > Len(BandNames) THEN << >>
                      ELSE IF keep(i) THEN << i >> \o Collect(i + 1)
                      ELSE Collect(i + 1)
    IN  Collect(1)

n_atm_bands == Len(atm_bands)

Bands == 1..n_atm_bands

\* reference_locations: one (lat, lon, elev) per reference pixel
reference_locations ==
    << << 0, 0, 0 >>, << 1, 0, 0 >>, << 0, 1, 0 >>, << 3, 3, 0 >>,
       << 4, 4, 50 >>, << 5, 5, 0 >>, << 2, 1, 0 >> >>

\* every band of the reference state raster, one row per reference pixel
reference_state_all ==
    << << 10, 1, 2 >>, << 11, 3, 1 >>, << 12, 5, -9999 >>, << 13, 4, -9999 >>,
       << 14, 6, -9999 >>, << 15, 7, -9999 >>, << 16, 2, 4 >> >>

n_reference_lines == Len(reference_locations)

Refs == 1..n_reference_lines

\* reference_state = reference_state_mm[:, :, atm_bands]
reference_state ==
    [r \in Refs |-> [i \in Bands |-> reference_state_all[r][atm_bands[i]]]]

\* ------------------------------------------------------------------------
\* Nearest neighbours and the local regression (lines 139-155)
\* ------------------------------------------------------------------------
\* squared horizontal and vertical distance in scaled units.  The scaled
\* distance is 1e12 * Horiz + 1e-4 * Vert, so for integer coordinates with
\* Vert < 1e16 it is ordered by Horiz first and Vert second.
Horiz(r, x) == (reference_locations[r][1] - x[1]) * (reference_locations[r][1] - x[1])
             + (reference_locations[r][2] - x[2]) * (reference_locations[r][2] - x[2])

Vert(r, x) == (reference_locations[r][3] - x[3]) * (reference_locations[r][3] - x[3])

\* r is returned before s by the tree (equal distances: lower index first)
Closer(r, s, x) ==
    \/ Horiz(r, x) < Horiz(s, x)
    \/ Horiz(r, x) = Horiz(s, x) /\ Vert(r, x) < Vert(s, x)
    \/ Horiz(r, x) = Horiz(s, x) /\ Vert(r, x) = Vert(s, x) /\ r < s

\* dists, nn = tree.query(x, nneighbors): the k nearest reference pixels
TreeQuery(x, k) ==
    { r \in Refs : Cardinality({ s \in Refs : Closer(s, r, x) }) < k }

\* the design row of a reference pixel: (1, lat, lon), elevation dropped
DesignRow(r) == << 1, reference_locations[r][1], reference_locations[r][2] >>

\* X.T @ W @ X with W the identity
NormalMatrix(use) ==
    [j \in 1..3 |-> [k \in 1..3 |->
        SumOver(use, [r \in use |-> DesignRow(r)[j] * DesignRow(r)[k]])]]

\* X.T @ W @ y
NormalRhs(use, i) ==
    [j \in 1..3 |->
        SumOver(use, [r \in use |-> DesignRow(r)[j] * reference_state[r][i]])]

Det3(M) ==
      M[1][1] * (M[2][2] * M[3][3] - M[2][3] * M[3][2])
    - M[1][2] * (M[2][1] * M[3][3] - M[2][3] * M[3][1])
    + M[1][3] * (M[2][1] * M[3][2] - M[2][2] * M[3][1])

Adj3(M) ==
    << << M[2][2] * M[3][3] - M[2][3] * M[3][2],
          M[1][3] * M[3][2] - M[1][2] * M[3][3],
          M[1][2] * M[2][3] - M[1][3] * M[2][2] >>,
       << M[2][3] * M[3][1] - M[2][1] * M[3][3],
          M[1][1] * M[3][3] - M[1][3] * M[3][1],
          M[1][3] * M[2][1] - M[1][1] * M[2][3] >>,
       << M[2][1] * M[3][2] - M[2][2] * M[3][1],
          M[1][2] * M[3][1] - M[1][1] * M[3][2],
          M[1][1] * M[2][2] - M[1][2] * M[2][1] >> >>

\* scipy.linalg.inv: raises LinAlgError on a singular matrix, otherwise the
\* inverse, here adj / det
inv(M) ==
    IF Det3(M) = 0
    THEN [raised |-> TRUE,  adj |-> Adj3(M), det |-> 0]
    ELSE [raised |-> FALSE, adj |-> Adj3(M), det |-> Det3(M)]

\* an all-zero coefficient row (np.zeros / bhat[i, :] = 0)
ZeroRow == [num |-> << 0, 0, 0 >>, den |-> 1]

\* the fit without the try/except: LinAlgError escapes
FitBand_raise(nn, i) ==
    LET use == { r \in nn : reference_state[r][i] > ValidFloor }
        I   == inv(NormalMatrix(use))
        b   == NormalRhs(use, i)
    IN  [raised |-> I.raised,
         row |-> [num |-> [j \in 1..3 |->
                             I.adj[j][1] * b[1] + I.adj[j][2] * b[2]
                                                + I.adj[j][3] * b[3]],
                  den |-> I.det]]

\* lines 146-155: the coefficient row of band i from the neighbours nn
FitBand(nn, i) ==
    LET use == { r \in nn : reference_state[r][i] > ValidFloor }
        I   == inv(NormalMatrix(use))
        b   == NormalRhs(use, i)
    IN  IF I.raised
        THEN [raised |-> FALSE, row |-> ZeroRow]
        ELSE [raised |-> FALSE,
              row |-> [num |-> [j \in 1..3 |->
                                  I.adj[j][1] * b[1] + I.adj[j][2] * b[2]
                                                     + I.adj[j][3] * b[3]],
                       den |-> I.det]]

\* lines 139-155: query the tree and fit every band.  tree.query pads
\* missing neighbours with the index n (out of range for
\* reference_locations, line 140), and for k = 1 it returns a scalar so
\* that yv is one-dimensional (line 146): both raise IndexError.
FitModel(x, k) ==
    LET nn   == TreeQuery(x, k)
        rows == [i \in Bands |-> FitBand(nn, i)]
    IN  IF k > n_reference_lines \/ k = 1 \/ \E i \in Bands : rows[i].raised
        THEN [raised |-> TRUE,  bhat |-> [i \in Bands |-> ZeroRow]]
        ELSE [raised |-> FALSE, bhat |-> [i \in Bands |-> rows[i].row]]

\* line 163-164: A = (1, lat, lon); output = (bhat.T * A).sum(axis=0)
Evaluate(bhat, x) ==
    [i \in Bands |->
        Rat(bhat[i].num[1] + bhat[i].num[2] * x[1] + bhat[i].num[3] * x[2],
            bhat[i].den)]

\* ------------------------------------------------------------------------
\* The target grid and the segmentation grid
\* ------------------------------------------------------------------------
Cols == 0..(NSamples - 1)

\* the kinds of target line the inputs are drawn from
KindCycle == << "uniform", "mixed", "partial", "nodata" >>

RowKinds == { KindCycle[k] : k \in 1..Len(KindCycle) }

\* the target rasters of n lines the inputs are drawn from: the cycle of
\* kinds started at each of its positions, and each kind on every line
Grids(n) ==
    { [r \in 1..n |-> KindCycle[((r - 1 + p) % Len(KindCycle)) + 1]] :
          p \in 0..(Len(KindCycle) - 1) }
    \cup { [r \in 1..n |-> kd] : kd \in RowKinds }

\* input_locations[row, col, :] of a line of kind kd, for sentinel nd
LocOf(kd, col, nd) ==
    CASE kd = "nodata"  -> << nd, nd, nd >>
      [] kd = "uniform" -> << 0, 0, 1 >>
      [] kd = "mixed"   -> IF col % 2 = 0 THEN << 4, 4, 0 >> ELSE << 2, 0, 0 >>
      [] kd = "partial" -> IF col = 0 THEN << 0, 1, nd >> ELSE << nd, nd, nd >>

\* segmentation_img[row, col] of a line of kind kd
LabelOf(kd, col) ==
    CASE kd = "nodata"  -> 0
      [] kd = "uniform" -> 1
      [] kd = "mixed"   -> IF col % 2 = 0 THEN 1 ELSE 2
      [] kd = "partial" -> IF col = 0 THEN 2 ELSE 0

\* the values the nodata_value parameter is drawn from
NodataValues == {DefaultNodata, -1}

\* every location a target pixel can have
TargetLocs ==
    { LocOf(kd, col, nd) : kd \in RowKinds, col \in Cols, nd \in NodataValues }

\* the model lines 139-155 fit at each target location
FittedAt == [x \in TargetLocs |-> FitModel(x, NNeighbors)]

\* np.isclose(a, b): |a - b| <= 1e-8 + 1e-5 * |b|, on integers
IsClose(a, b) == Abs(a - b) * 100000 <= Abs(b)

\* the comparison made against the default sentinel instead of the parameter
AllClose_default(x, nd) == \A j \in 1..3 : IsClose(x[j], DefaultNodata)

\* np.all(np.isclose(x, nodata_value))
AllClose(x, nd) == \A j \in 1..3 : IsClose(x[j], nd)

VARIABLES
    n_input_lines,          \* lines of the target locations raster
    grid,                   \* kind of each target line (index row + 1)
    segmentation_file,      \* "none", or the shape of the segmentation raster
    reference_loc_bands,    \* bands of the reference locations raster
    nodata_value,           \* the nodata_value parameter
    n_cores_arg,            \* the n_cores parameter
    n_ray_cores,            \* CPUs ray.available_resources() reports
    gaussian_smoothing_sigma,
    pc,                     \* position of atm_interpolation
    error,                  \* exception atm_interpolation ended with
    line_sections,          \* the cut points (empty before they are computed)
    results,                \* workers dispatched so far, in order
    atm_img,                \* the copy the smoothing works on
    output_atm_file,        \* the output raster, line by line
    chunk,                  \* state of each _run_chunk task
    writes,                 \* per line: the workers that wrote it, in order
    n_created,              \* times the output raster was created
    fits,                   \* per worker: the fits it made, in order
    used,                   \* per worker: the model it used at each pixel
    smoothed                \* times the smoothing rewrote the raster

inputs == << n_input_lines, grid, segmentation_file, reference_loc_bands,
             nodata_value, n_cores_arg, n_ray_cores, gaussian_smoothing_sigma >>

vars == << n_input_lines, grid, segmentation_file, reference_loc_bands,
           nodata_value, n_cores_arg, n_ray_cores, gaussian_smoothing_sigma,
           pc, error, line_sections, results, atm_img, output_atm_file,
           chunk, writes, n_created, fits, used, smoothed >>

Workers == 1..MaxCores

Lines == 0..(n_input_lines - 1)

\* shape of the segmentation raster for each value of segmentation_file
SegLines == CASE segmentation_file = "short" -> n_input_lines - 1
              [] OTHER -> n_input_lines

SegSamples == CASE segmentation_file = "narrow" -> NSamples - 1
                [] OTHER -> NSamples

\* band count of the target locations raster (lat, lon, elev)
n_location_bands == 3

\* the inputs the specification calls input-shape errors
ShapeMismatch ==
    \/ reference_loc_bands # n_location_bands
    \/ segmentation_file \in {"short", "narrow"}

\* ------------------------------------------------------------------------
\* _run_chunk, one target line (lines 114-178)
\* ------------------------------------------------------------------------
\* a lookup that never finds the label
CachedModel_miss(hash_table, hash_idx) ==
    [hit |-> FALSE, bhat |-> [i \in Bands |-> ZeroRow]]

\* lines 135-136: the cached model of a label, if any
CachedModel(hash_table, hash_idx) ==
    IF hash_idx \in DOMAIN hash_table
    THEN [hit |-> TRUE, bhat |-> hash_table[hash_idx]]
    ELSE [hit |-> FALSE, bhat |-> [i \in Bands |-> ZeroRow]]

\* a store that keeps nothing
StoreModel_skip(hash_table, hash_idx, bhat) == hash_table

\* lines 160-161: store bhat under a label that has no entry yet
StoreModel(hash_table, hash_idx, bhat) ==
    IF segmentation_file # "none" /\ ~(hash_idx \in DOMAIN hash_table)
    THEN hash_table @@ (hash_idx :> bhat)
    ELSE hash_table

\* lines 126-166 for the pixel (row, col); st carries the line's progress:
\* whether an exception escaped, the output row, the hash table and the
\* record of the fits made and models used
PixelStep(st, row, col) ==
    LET kd       == grid[row + 1]
        x        == LocOf(kd, col, nodata_value)
        hash_idx == LabelOf(kd, col)
        cached   == CachedModel(st.hash_table, hash_idx)
        fit      == FittedAt[x]
        bhat     == IF cached.hit THEN cached.bhat ELSE fit.bhat
    IN  IF st.raised THEN st
        ELSE IF AllClose(x, nodata_value)
        THEN [st EXCEPT !.out = @ @@ (col :> [i \in Bands |-> Num(nodata_value)])]
        ELSE IF segmentation_file = "none"                \* None[row, col]
        THEN [st EXCEPT !.raised = TRUE]
        ELSE IF row >= SegLines \/ col >= SegSamples      \* index out of bounds
        THEN [st EXCEPT !.raised = TRUE]
        ELSE IF ~cached.hit /\ fit.raised
        THEN [st EXCEPT !.raised = TRUE]
        ELSE [st EXCEPT
                !.out = @ @@ (col :> Evaluate(bhat, x)),
                !.hash_table = StoreModel(@, hash_idx, bhat),
                !.fits =
                    IF cached.hit THEN @
                    ELSE Append(@, [row |-> row, col |-> col, x |-> x,
                                    label |-> hash_idx, bhat |-> bhat]),
                !.used = Append(@, [row |-> row, col |-> col, x |-> x,
                                    label |-> hash_idx, bhat |-> bhat])]

RECURSIVE ColumnLoop(_, _, _)
\* for col in np.arange(n_input_samples), from column col on
ColumnLoop(st, row, col) ==
    IF col >= NSamples THEN st
    ELSE ColumnLoop(PixelStep(st, row, col), row, col + 1)

\* the body of the row loop up to the write: output_atm_row starts as
\* nodata everywhere (line 121)
RunRow(row, hash_table) ==
    ColumnLoop([raised |-> FALSE,
                out |-> [c \in {} |-> 0],
                hash_table |-> hash_table,
                fits |-> << >>,
                used |-> << >>], row, 0)

\* the line number counted from the start of the chunk
WrittenLine_local(row, start_line) == row - start_line

\* line 177: the line number handed to write_bil_chunk
WrittenLine(row, start_line) == row

\* write_bil_chunk(dat, outfile, line, shape): dat, a sequence of lines,
\* replaces the lines of the file from `line` on
write_bil_chunk(file, dat, line) ==
    [r \in DOMAIN file |->
        IF line <= r /\ r < line + Len(dat) THEN dat[r - line + 1] ELSE file[r]]

\* cut points at multiples of the whole-number section length, the last
\* one not pinned to n
linspace_gap(n, k) == [l \in 1..(k + 1) |-> (l - 1) * (n \div k)]

\* sections of the whole-number length, the last taking the remainder
linspace_last(n, k) ==
    [l \in 1..(k + 1) |-> IF l = k + 1 THEN n ELSE (l - 1) * (n \div k)]

\* sections of the rounded-up length, cut off at n
linspace_ceil(n, k) ==
    [l \in 1..(k + 1) |-> Min((l - 1) * ((n + k - 1) \div k), n)]

\* np.linspace(0, n, num=k + 1, dtype=int): entry l + 1 is the cut point l
linspace(n, k) ==
    [l \in 1..(k + 1) |-> IF l = k + 1 THEN n ELSE ((l - 1) * n) \div k]

\* ------------------------------------------------------------------------
\* Initial state: the arguments and rasters of one call of atm_interpolation
\* ------------------------------------------------------------------------
IdleChunk == [status |-> "idle", start_line |-> 0, stop_line |-> 0,
              row |-> 0, hash_table |-> [l \in {} |-> 0]]

Init ==
    /\ n_input_lines \in 1..MaxLines
    /\ grid \in Grids(n_input_lines)
    /\ segmentation_file \in {"none", "match", "short", "narrow"}
    /\ reference_loc_bands \in {2, 3}
    /\ nodata_value \in NodataValues
    /\ n_cores_arg \in {AllCores, 1, MaxCores}
    /\ gaussian_smoothing_sigma \in {-1, 0, DefaultSigma}
    \* at most one of the five departs from a well-formed default call
    /\ Cardinality({ k \in 1..5 :
            \/ k = 1 /\ segmentation_file # "match"
            \/ k = 2 /\ reference_loc_bands # n_location_bands
            \/ k = 3 /\ n_cores_arg # AllCores
            \/ k = 4 /\ nodata_value # DefaultNodata
            \/ k = 5 /\ gaussian_smoothing_sigma # DefaultSigma }) <= 1
    /\ n_ray_cores \in 1..MaxCores
    /\ pc = "start"
    /\ error = "none"
    /\ line_sections = << >>
    /\ results = << >>
    /\ atm_img = << >>
    /\ output_atm_file = << >>
    /\ chunk = [w \in Workers |-> IdleChunk]
    /\ writes = [r \in Lines |-> << >>]
    /\ n_created = 0
    /\ fits = [w \in Workers |-> << >>]
    /\ used = [w \in Workers |-> << >>]
    /\ smoothed = 0

\* ------------------------------------------------------------------------
\* atm_interpolation (lines 212-293)
\* ------------------------------------------------------------------------
\* a start that goes on to ray.init without allocating the raster
CreateOutput_skip ==
    /\ pc = "start"
    /\ pc' = "ray_init"
    /\ UNCHANGED << inputs, error, line_sections, results, atm_img,
                    output_atm_file, chunk, writes, n_created, fits, used,
                    smoothed >>

\* lines 216-237: envi.create_image allocates the output raster
CreateOutput ==
    /\ pc = "start"
    /\ output_atm_file' =
           [r \in Lines |-> [c \in Cols |-> [i \in Bands |-> Num(0)]]]
    /\ n_created' = n_created + 1
    /\ pc' = "ray_init"
    /\ UNCHANGED << inputs, error, line_sections, results, atm_img, chunk,
                    writes, fits, used, smoothed >>

\* lines 240-255: ray.init and the cut points.  Line 244 assigns to the
\* undefined name ray_argw whenever n_cores is not -1.
RayInit ==
    /\ pc = "ray_init"
    /\ IF n_cores_arg # AllCores
       THEN /\ pc' = "failed"
            /\ error' = "NameError"
            /\ UNCHANGED line_sections
       ELSE /\ pc' = "dispatch"
            /\ line_sections' = linspace(n_input_lines,
                                         Min(n_ray_cores, n_input_lines))
            /\ UNCHANGED error
    /\ UNCHANGED << inputs, results, atm_img, output_atm_file, chunk, writes,
                    n_created, fits, used, smoothed >>

\* a dispatch whose ranges run one line into the next section
Dispatch_overlap ==
    /\ pc = "dispatch"
    /\ Len(results) < Len(line_sections) - 1
    /\ LET l == Len(results)
           w == l + 1
       IN  /\ chunk' = [chunk EXCEPT ![w] =
                   [status |-> "pending",
                    start_line |-> line_sections[l + 1],
                    stop_line |-> Min(line_sections[l + 2] + 1, n_input_lines),
                    row |-> line_sections[l + 1],
                    hash_table |-> [k \in {} |-> 0]]]
           /\ results' = Append(results, w)
    /\ UNCHANGED << inputs, pc, error, line_sections, atm_img,
                    output_atm_file, writes, n_created, fits, used, smoothed >>

\* a dispatch that hands the new task the hash table of the task before it
Dispatch_sharedcache ==
    /\ pc = "dispatch"
    /\ Len(results) < Len(line_sections) - 1
    /\ LET l == Len(results)
           w == l + 1
       IN  /\ chunk' = [chunk EXCEPT ![w] =
                   [status |-> "pending",
                    start_line |-> line_sections[l + 1],
                    stop_line |-> line_sections[l + 2],
                    row |-> line_sections[l + 1],
                    hash_table |-> IF l >= 1 THEN chunk[l].hash_table
                                   ELSE [k \in {} |-> 0]]]
           /\ results' = Append(results, w)
    /\ UNCHANGED << inputs, pc, error, line_sections, atm_img,
                    output_atm_file, writes, n_created, fits, used, smoothed >>

\* lines 261-266: one _run_chunk.remote per section; the task's hash table
\* is the local of line 112
Dispatch ==
    /\ pc = "dispatch"
    /\ Len(results) < Len(line_sections) - 1
    /\ LET l == Len(results)
           w == l + 1
       IN  /\ chunk' = [chunk EXCEPT ![w] =
                   [status |-> "pending",
                    start_line |-> line_sections[l + 1],
                    stop_line |-> line_sections[l + 2],
                    row |-> line_sections[l + 1],
                    hash_table |-> [k \in {} |-> 0]]]
           /\ results' = Append(results, w)
    /\ UNCHANGED << inputs, pc, error, line_sections, atm_img,
                    output_atm_file, writes, n_created, fits, used, smoothed >>

Dispatched == { results[k] : k \in 1..Len(results) }

\* a wait that returns with the first finished task
RayGetReturns_any ==
    /\ pc = "dispatch"
    /\ Len(results) = Len(line_sections) - 1
    /\ \E w \in Dispatched : chunk[w].status = "done"
    /\ pc' = "load"
    /\ UNCHANGED << inputs, error, line_sections, results, atm_img,
                    output_atm_file, chunk, writes, n_created, fits, used,
                    smoothed >>

\* a wait that counts a failed task as finished
RayGetReturns_swallow ==
    /\ pc = "dispatch"
    /\ Len(results) = Len(line_sections) - 1
    /\ \A w \in Dispatched : chunk[w].status \in {"done", "failed"}
    /\ pc' = "load"
    /\ UNCHANGED << inputs, error, line_sections, results, atm_img,
                    output_atm_file, chunk, writes, n_created, fits, used,
                    smoothed >>

\* line 268, ray.get(results): returns once every task has finished
RayGetReturns ==
    /\ pc = "dispatch"
    /\ Len(results) = Len(line_sections) - 1
    /\ \A w \in Dispatched : chunk[w].status = "done"
    /\ pc' = "load"
    /\ UNCHANGED << inputs, error, line_sections, results, atm_img,
                    output_atm_file, chunk, writes, n_created, fits, used,
                    smoothed >>

\* line 268, ray.get(results): raises the error of a failed task
RayGetRaises ==
    /\ pc = "dispatch"
    /\ Len(results) = Len(line_sections) - 1
    /\ \E w \in Dispatched : chunk[w].status = "failed"
    /\ pc' = "failed"
    /\ error' = "RayTaskError"
    /\ UNCHANGED << inputs, line_sections, results, atm_img, output_atm_file,
                    chunk, writes, n_created, fits, used, smoothed >>

\* line 276: the smoothing reads the whole raster into memory
LoadOutput ==
    /\ pc = "load"
    /\ atm_img' = output_atm_file
    /\ pc' = "smooth"
    /\ UNCHANGED << inputs, error, line_sections, results, output_atm_file,
                    chunk, writes, n_created, fits, used, smoothed >>

\* truncation radius of scipy's gaussian_filter (truncate = 4.0)
Radius(sigma) == 4 * sigma

\* the cells of the kernel window of (r, c)
Window(r, c, sigma) ==
    { rc \in Lines \X Cols : /\ Abs(rc[1] - r) <= Radius(sigma)
                             /\ Abs(rc[2] - c) <= Radius(sigma) }

\* line 280: the hole mask, null = atm_img[..., n] == -9999
IsNull(v) == v = Num(SmoothNull)

\* lines 280-290 for band n at cell (r, c): VV / WW.  The filtered value is
\* not computed; a cell whose window holds a valid cell records how many
\* valid cells and how many cells the window holds, and a cell whose
\* window holds none is 0 / 0.
SmoothCell(img, r, c, n, sigma) ==
    LET null(rc) == IsNull(img[rc[1]][rc[2]][n])
        valid    == { rc \in Window(r, c, sigma) : ~null(rc) }
    IN  IF valid = {} THEN NaN
        ELSE [t |-> "smooth", n |-> Cardinality(valid),
              d |-> Cardinality(Window(r, c, sigma))]

\* lines 279-290: every band of img smoothed, as a sequence of lines
SmoothImage(img, sigma) ==
    [k \in 1..n_input_lines |-> [c \in Cols |-> [n \in Bands |->
        SmoothCell(img, k - 1, c, n, sigma)]]]

\* a guard that also lets a zero width through
SmoothingEnabled_nonneg(sigma) == sigma >= 0

\* line 278: if gaussian_smoothing_sigma > 0
SmoothingEnabled(sigma) == sigma > 0

\* lines 278-293: smooth every band and rewrite the raster from line 0
Smooth ==
    /\ pc = "smooth"
    /\ IF SmoothingEnabled(gaussian_smoothing_sigma)
       THEN LET img == SmoothImage(atm_img, gaussian_smoothing_sigma)
            IN  /\ atm_img' = [r \in Lines |-> img[r + 1]]
                /\ output_atm_file' = write_bil_chunk(output_atm_file, img, 0)
                /\ smoothed' = smoothed + 1
       ELSE UNCHANGED << atm_img, output_atm_file, smoothed >>
    /\ pc' = "done"
    /\ UNCHANGED << inputs, error, line_sections, results, chunk, writes,
                    n_created, fits, used >>

\* ------------------------------------------------------------------------
\* _run_chunk (lines 69-178)
\* ------------------------------------------------------------------------
\* lines 69-112: open the rasters, build the tree, empty hash table.  The
\* reshape of line 88 raises when the reference locations do not have the
\* band count of the target locations.
ChunkStart(w) ==
    /\ chunk[w].status = "pending"
    /\ chunk' = [chunk EXCEPT ![w].status =
                    IF reference_loc_bands # n_location_bands
                    THEN "failed" ELSE "running"]
    /\ UNCHANGED << inputs, pc, error, line_sections, results, atm_img,
                    output_atm_file, writes, n_created, fits, used, smoothed >>

\* lines 114-178: one iteration of the row loop, ending with the write
ChunkRow(w) ==
    /\ chunk[w].status = "running"
    /\ chunk[w].row < chunk[w].stop_line
    /\ LET row == chunk[w].row
           st  == RunRow(row, chunk[w].hash_table)
       IN  IF st.raised
           THEN /\ chunk' = [chunk EXCEPT ![w].status = "failed"]
                /\ UNCHANGED << output_atm_file, writes, fits, used >>
           ELSE /\ chunk' = [chunk EXCEPT ![w].row = row + 1,
                                          ![w].hash_table = st.hash_table]
                /\ output_atm_file' =
                       write_bil_chunk(output_atm_file, << st.out >>,
                                       WrittenLine(row, chunk[w].start_line))
                /\ writes' = [writes EXCEPT
                       ![WrittenLine(row, chunk[w].start_line)] = Append(@, w)]
                /\ fits' = [fits EXCEPT ![w] = @ \o st.fits]
                /\ used' = [used EXCEPT ![w] = @ \o st.used]
    /\ UNCHANGED << inputs, pc, error, line_sections, results, atm_img,
                    n_created, smoothed >>

\* the row loop is exhausted and the task returns
ChunkReturn(w) ==
    /\ chunk[w].status = "running"
    /\ chunk[w].row >= chunk[w].stop_line
    /\ chunk' = [chunk EXCEPT ![w].status = "done"]
    /\ UNCHANGED << inputs, pc, error, line_sections, results, atm_img,
                    output_atm_file, writes, n_created, fits, used, smoothed >>

Next ==
    \/ CreateOutput
    \/ RayInit
    \/ Dispatch
    \/ RayGetReturns
    \/ RayGetRaises
    \/ LoadOutput
    \/ Smooth
    \/ \E w \in Workers : ChunkStart(w)
    \/ \E w \in Workers : ChunkRow(w)
    \/ \E w \in Workers : ChunkReturn(w)

Spec == Init /\ [][Next]_vars

\* ------------------------------------------------------------------------
\* Properties
\* ------------------------------------------------------------------------
\* the dispatch loop has run to its end
AllDispatched ==
    line_sections # << >> /\ Len(results) = Len(line_sections) - 1

\* the lines [start_line, stop_line) handed to worker w
RangeOf(w) == chunk[w].start_line .. (chunk[w].stop_line - 1)

AllDone == AllDispatched /\ \A w \in Dispatched : chunk[w].status = "done"

\* the inputs are well formed and the default core count is used
ValidInputs ==
    /\ n_cores_arg = AllCores
    /\ segmentation_file = "match"
    /\ reference_loc_bands = n_location_bands

\* all three coordinates of the target pixel are the nodata sentinel
NodataPixel(r, c) ==
    LocOf(grid[r + 1], c, nodata_value)
        = << nodata_value, nodata_value, nodata_value >>

\* every line of [0, n) lies in exactly one range [cuts[l], cuts[l + 1])
Tiles(cuts, n) ==
    \A r \in 0..(n - 1) :
        Cardinality({ l \in 1..(Len(cuts) - 1) :
                          cuts[l] <= r /\ r < cuts[l + 1] }) = 1

\* C1: the dispatched row ranges lie inside [0, n_lines), never overlap,
\* and once the dispatch loop has ended every line belongs to exactly one
\* of them; the cut points of every worker count in [1, n_lines] tile
\* [0, n_lines) in the same way.
C1_PartitionCovers ==
    /\ \A k \in 1..n_input_lines :
          Tiles(linspace(n_input_lines, k), n_input_lines)
    /\ line_sections # << >> => Tiles(line_sections, n_input_lines)
    /\ \A w \in Dispatched : RangeOf(w) \subseteq Lines
    /\ \A w1, w2 \in Dispatched :
          w1 # w2 => RangeOf(w1) \cap RangeOf(w2) = {}
    /\ AllDispatched =>
          \A r \in Lines :
              Cardinality({ w \in Dispatched : r \in RangeOf(w) }) = 1

\* C1 witness: three lines cut into two unequal ranges, both dispatched
C1_Witness ==
    AllDispatched /\ n_input_lines = 3 /\ Len(results) = 2

\* C2: a line is written at most once and only by the worker whose range
\* holds it; a worker has written exactly the lines of its range it has
\* passed; when every worker is done every line has been written exactly
\* once.
C2_DisjointWrites ==
    /\ \A r \in Lines :
          /\ Len(writes[r]) <= 1
          /\ \A k \in 1..Len(writes[r]) : r \in RangeOf(writes[r][k])
    /\ \A w \in Dispatched : \A r \in RangeOf(w) :
          (r < chunk[w].row) <=> (writes[r] = << w >>)
    /\ \A w \in Dispatched :
          chunk[w].status = "done" => \A r \in RangeOf(w) : writes[r] = << w >>
    /\ AllDone => \A r \in Lines : Len(writes[r]) = 1

\* C2 witness: two workers have both finished a three-line raster
C2_Witness ==
    AllDone /\ n_input_lines = 3 /\ Len(results) = 2

\* C3: whenever atm_interpolation is reading, smoothing or has rewritten
\* the raster, every task was dispatched and is done and every line has
\* been written.
C3_SmoothAfterWorkers ==
    pc \in {"load", "smooth", "done"} =>
        /\ AllDone
        /\ \A w \in Workers : chunk[w].status \in {"idle", "done"}
        /\ \A r \in Lines : Len(writes[r]) >= 1

\* C3 witness: the smoothing has rewritten a raster several workers wrote
C3_Witness ==
    pc = "done" /\ smoothed = 1 /\ Len(results) >= 2

\* C4: once a task has failed, atm_interpolation never reads the raster
\* back, never smooths or rewrites it and never ends successfully.
C4_FailedTaskFailsRun ==
    (\E w \in Workers : chunk[w].status = "failed") =>
        /\ pc \notin {"load", "smooth", "done"}
        /\ smoothed = 0
        /\ atm_img = << >>

\* C4 witness: the run has failed on a task error with part of the raster
\* already written
C4_Witness ==
    /\ pc = "failed" /\ error = "RayTaskError"
    /\ \E w \in Workers : chunk[w].status = "failed"
    /\ \E r \in Lines : writes[r] # << >>

\* C5: no fit (with its neighbour query) is made and no model is used at a
\* nodata pixel, every hash-table entry comes from a fit, and a written
\* line holds nodata_value in every band of its nodata pixels.
C5_NodataPassThrough ==
    \A w \in Workers :
        /\ \A k \in 1..Len(fits[w]) :
              ~NodataPixel(fits[w][k].row, fits[w][k].col)
        /\ \A k \in 1..Len(used[w]) :
              ~NodataPixel(used[w][k].row, used[w][k].col)
        /\ DOMAIN chunk[w].hash_table
              = { fits[w][k].label : k \in 1..Len(fits[w]) }
        /\ smoothed = 0 =>
              \A r \in Lines, c \in Cols :
                  (writes[r] = << w >> /\ NodataPixel(r, c)) =>
                      \A i \in Bands :
                          output_atm_file[r][c][i] = Num(nodata_value)

\* C5 witness: a written line holding a nodata pixel next to a valid one
C5_Witness ==
    \E r \in Lines :
        /\ writes[r] # << >>
        /\ grid[r + 1] = "partial"
        /\ \E w \in Workers : \E k \in 1..Len(used[w]) : used[w][k].row = r

\* C6: with a segmentation grid, every pixel a worker has evaluated used
\* the model its hash table holds for the pixel's label, so pixels of one
\* label share one coefficient matrix and an entry never changes.
C6_CachedModelReused ==
    \A w \in Workers : \A k \in 1..Len(used[w]) :
        /\ used[w][k].label \in DOMAIN chunk[w].hash_table
        /\ chunk[w].hash_table[used[w][k].label] = used[w][k].bhat
        /\ \A j \in 1..Len(used[w]) :
              used[w][j].label = used[w][k].label
                  => used[w][j].bhat = used[w][k].bhat

\* C6 witness: a pixel was evaluated with a cached model that differs from
\* the model a fit at that pixel gives
C6_Witness ==
    \E w \in Workers : \E k \in 1..Len(used[w]) :
        used[w][k].bhat # FittedAt[used[w][k].x].bhat

\* C7 as claimed: without a segmentation grid (inputs otherwise well
\* formed) no worker fails, nothing is cached, and every pixel a worker
\* evaluated was fit afresh.
C7_NoSegmentationCompletes ==
    (/\ segmentation_file = "none"
     /\ n_cores_arg = AllCores
     /\ reference_loc_bands = n_location_bands) =>
        \A w \in Workers :
            /\ chunk[w].status # "failed"
            /\ DOMAIN chunk[w].hash_table = {}
            /\ Len(fits[w]) = Len(used[w])

\* per target location and band: whether the valid neighbours make the
\* normal equations singular, with the matrix and right-hand side
NormalAt ==
    [x \in TargetLocs |-> [i \in Bands |->
        LET use == { r \in TreeQuery(x, NNeighbors) :
                         reference_state[r][i] > ValidFloor }
        IN  [singular |-> Det3(NormalMatrix(use)) = 0,
             M |-> NormalMatrix(use),
             b |-> NormalRhs(use, i)]]]

\* the valid neighbours of band i at x make the normal equations singular
SingularBand(x, i) == NormalAt[x][i].singular

\* the row solves the normal equations of band i at x
SolvesBand(row, x, i) ==
    LET M == NormalAt[x][i].M
        b == NormalAt[x][i].b
    IN  /\ row.den # 0
        /\ \A j \in 1..3 :
              M[j][1] * row.num[1] + M[j][2] * row.num[2]
                  + M[j][3] * row.num[3] = row.den * b[j]

C9_RequestedCoresDispatched ==
    /\ error # "NameError"
    /\ AllDispatched =>
          Len(results) = Min(IF n_cores_arg = AllCores THEN n_ray_cores
                             ELSE n_cores_arg, n_input_lines)

\* C10 as claimed: on inputs with a shape mismatch no task is dispatched
\* and no line is written.
C10_ShapeErrorsBeforeDispatch ==
    ShapeMismatch =>
        /\ results = << >>
        /\ \A w \in Workers : chunk[w].status = "idle"
        /\ \A r \in Lines : writes[r] = << >>

\* every target pixel is a nodata pixel, so every band the workers write
\* is nodata throughout
AllNodataGrid == \A r \in Lines, c \in Cols : NodataPixel(r, c)

\* C11 as claimed: the smoothing never leaves a 0 / 0 in the raster, and a
\* raster whose bands are entirely nodata is still nodata in every cell
\* after the smoothing.
C11_AllNodataBandGuarded ==
    /\ \A r \in DOMAIN output_atm_file : \A c \in Cols, i \in Bands :
          output_atm_file[r][c][i] # NaN
    /\ (pc = "done" /\ AllNodataGrid) =>
          \A r \in Lines, c \in Cols, i \in Bands :
              output_atm_file[r][c][i] = Num(nodata_value)

\* C12: when gaussian_smoothing_sigma is not positive the run ends without
\* a rewrite and the raster is cell for cell the one read back after the
\* workers finished.
C12_NonPositiveSigmaNoOp ==
    (pc = "done" /\ gaussian_smoothing_sigma <= 0) =>
        /\ smoothed = 0
        /\ output_atm_file = atm_img
        /\ \A r \in Lines, c \in Cols, i \in Bands :
              output_atm_file[r][c][i].t = "num"

\* C12 witness: a run with sigma 0 has ended on a raster holding fitted
\* values
C12_Witness ==
    /\ pc = "done" /\ gaussian_smoothing_sigma = 0
    /\ \E w \in Workers : Len(used[w]) > 0

RECURSIVE ReplayChunk(_, _, _)
\* the output lines of the rows [row, stop) computed one after the other
\* from the hash table given
ReplayChunk(row, stop, hash_table) ==
    IF row >= stop THEN [r \in {} |-> 0]
    ELSE LET st == RunRow(row, hash_table)
         IN  (row :> st.out) @@ ReplayChunk(row + 1, stop, st.hash_table)

\* the raster as a function of the inputs and the ranges alone: each
\* line as its worker computes it when run on its own
ExpectedRaster ==
    [r \in Lines |->
        LET w == CHOOSE v \in Dispatched : r \in RangeOf(v)
        IN  ReplayChunk(chunk[w].start_line, chunk[w].stop_line,
                        [l \in {} |-> 0])[r]]

\* C13: whatever the order in which the workers ran, once all are done the
\* raster is the function ExpectedRaster of the inputs and the worker
\* count, and after the smoothing it is the smoothing of that raster.
C13_DeterministicRaster ==
    /\ (AllDone /\ smoothed = 0) => output_atm_file = ExpectedRaster
    /\ (pc = "done" /\ smoothed = 1) =>
          output_atm_file =
              [r \in Lines |->
                  SmoothImage(ExpectedRaster, gaussian_smoothing_sigma)[r + 1]]

\* C13 witness: a run of several workers over several lines each has ended
C13_Witness ==
    /\ pc = "done" /\ Len(results) >= 2 /\ n_input_lines >= 4
    /\ \E w \in Workers : Len(used[w]) > 0

\* the lengths of the ranges between consecutive cut points
RangeLengths(cuts) == [l \in 1..(Len(cuts) - 1) |-> cuts[l + 1] - cuts[l]]

\* C14 as claimed: every dispatched range but the last has the length
\* floor(n_lines / n_workers).
C14_LastAbsorbsRemainder ==
    AllDispatched =>
        \A w \in Dispatched :
            w < Len(results) =>
                chunk[w].stop_line - chunk[w].start_line
                    = n_input_lines \div Len(results)

\* lengths are q = floor(n / k) or q + 1, and n mod k of them are q + 1
NearEqual(cuts, n) ==
    LET k == Len(cuts) - 1
        q == n \div k
        L == RangeLengths(cuts)
    IN  /\ \A l \in 1..k : L[l] \in {q, q + 1}
        /\ Cardinality({ l \in 1..k : L[l] = q + 1 }) = n % k

\* C14 amended: the dispatched ranges are contiguous from line 0 to
\* n_lines and are the sections between the cut points; for every worker
\* count in [1, n_lines] each section has length floor(n / k) or one more,
\* and exactly n mod k sections have the longer length.
C14_EvenCutPoints ==
    /\ \A k \in 1..n_input_lines :
          NearEqual(linspace(n_input_lines, k), n_input_lines)
    /\ \A w \in Dispatched :
          /\ chunk[w].start_line = line_sections[w]
          /\ chunk[w].stop_line = line_sections[w + 1]
          /\ w = 1 => chunk[w].start_line = 0
          /\ w > 1 => chunk[w].start_line = chunk[w - 1].stop_line
    /\ AllDispatched =>
          /\ chunk[Len(results)].stop_line = n_input_lines
          /\ NearEqual(line_sections, n_input_lines)

\* C14 witness: five lines over three workers, the middle range longer
\* than the first
C14_Witness ==
    /\ AllDispatched /\ n_input_lines = 5 /\ Len(results) = 3
    /\ chunk[2].stop_line - chunk[2].start_line
          > chunk[1].stop_line - chunk[1].start_line

\* the fit records of worker w for label l
FitsOf(w, l) == { k \in 1..Len(fits[w]) : fits[w][k].label = l }

\* C15: the regression cache is private to a worker: it is empty when the
\* task is dispatched and until its first row, and every entry was put
\* there by one fit of the same worker at a pixel of its own range, whatever
\* other workers hold for that label.
C15_PrivateCache ==
    \A w \in Workers :
        /\ chunk[w].status \in {"idle", "pending"} =>
              DOMAIN chunk[w].hash_table = {}
        /\ (chunk[w].status # "idle" /\ chunk[w].row = chunk[w].start_line) =>
              DOMAIN chunk[w].hash_table = {}
        /\ \A l \in DOMAIN chunk[w].hash_table :
              /\ Cardinality(FitsOf(w, l)) = 1
              /\ \A k \in FitsOf(w, l) :
                    /\ fits[w][k].row \in RangeOf(w)
                    /\ fits[w][k].bhat = FittedAt[fits[w][k].x].bhat
                    /\ chunk[w].hash_table[l] = fits[w][k].bhat

\* C15 witness: two workers hold the same label, each from its own fit,
\* with different models
C15_Witness ==
    \E w1, w2 \in Workers : \E l \in DOMAIN chunk[w1].hash_table :
        /\ w1 # w2
        /\ l \in DOMAIN chunk[w2].hash_table
        /\ chunk[w1].hash_table[l] # chunk[w2].hash_table[l]
        /\ FitsOf(w1, l) # {} /\ FitsOf(w2, l) # {}

\* some task has been dispatched, has started or has written
WorkBegun ==
    \/ results # << >>
    \/ \E w \in Workers : chunk[w].status # "idle"
    \/ \E r \in Lines : writes[r] # << >>

\* C16: the output raster is created at most once, and by the time a task
\* is dispatched, runs or writes it has been created exactly once and has
\* all its lines; so it is created before the first dispatch and never
\* again afterwards.
C16_CreatedOnceBeforeDispatch ==
    /\ n_created <= 1
    /\ pc # "start" => n_created = 1
    /\ WorkBegun =>
          /\ n_created = 1
          /\ DOMAIN output_atm_file = Lines

\* C16 witness: every task has finished and every line has been written
C16_Witness ==
    /\ AllDone
    /\ n_created = 1
    /\ \A r \in Lines : writes[r] # << >>

\* C17 as claimed: when the smoothing runs, a cell of the loaded raster is
\* in the hole mask exactly when the worker emitted nodata for its pixel,
\* whatever nodata_value is configured.
C17_MaskIsConfiguredNodata ==
    (pc = "smooth" /\ SmoothingEnabled(gaussian_smoothing_sigma)) =>
        \A r \in Lines, c \in Cols, n \in Bands :
            IsNull(atm_img[r][c][n]) <=> NodataPixel(r, c)

\* the non-nodata pixels of the lines worker w has finished
FinishedPixels(w) ==
    { p \in (chunk[w].start_line .. (chunk[w].row - 1)) \X Cols :
        ~NodataPixel(p[1], p[2]) }

\* the segmentation label of pixel p
LabelAt(p) == LabelOf(grid[p[1] + 1], p[2])

\* raster-scan order
ScanBefore(p, q) == p[1] < q[1] \/ (p[1] = q[1] /\ p[2] <= q[2])

\* the first finished pixel of worker w that carries label l
FirstWith(w, l) ==
    CHOOSE p \in FinishedPixels(w) :
        /\ LabelAt(p) = l
        /\ \A q \in FinishedPixels(w) : LabelAt(q) = l => ScanBefore(p, q)

\* the state part of C18
CacheMatchesLabels ==
    segmentation_file # "none" =>
        \A w \in Dispatched :
            LET labels == { LabelAt(p) : p \in FinishedPixels(w) }
            IN  /\ DOMAIN chunk[w].hash_table = labels
                /\ Len(fits[w]) = Cardinality(labels)
                /\ Len(used[w]) = Cardinality(FinishedPixels(w))
                /\ \A l \in labels :
                      LET p == FirstWith(w, l)
                      IN  chunk[w].hash_table[l] =
                              FittedAt[LocOf(grid[p[1] + 1], p[2],
                                             nodata_value)].bhat

\* the step part of C18: a running task keeps every entry it has
CacheGrows ==
    \A w \in Workers :
        chunk[w].status # "idle" =>
            \A l \in DOMAIN chunk[w].hash_table :
                /\ l \in DOMAIN chunk'[w].hash_table
                /\ chunk'[w].hash_table[l] = chunk[w].hash_table[l]

\* C18: with a segmentation grid, a worker's hash table only grows; its
\* keys are the labels of the non-nodata pixels of the lines it has
\* finished, it has made one fit per such label, and the model held for a
\* label is the fit at the first such pixel in raster-scan order.
C18_OneFitPerLabel == [](CacheMatchesLabels) /\ [][CacheGrows]_vars

\* C18 witness: a finished task that evaluated more pixels than it made
\* fits and holds two labels
C18_Witness ==
    \E w \in Dispatched :
        /\ chunk[w].status = "done"
        /\ Len(fits[w]) = 2
        /\ Len(used[w]) > 2
        /\ \E k \in 1..Len(used[w]) :
              used[w][k].bhat # FittedAt[used[w][k].x].bhat

\* every range between the cut points is non-empty and no two lengths
\* differ by more than one
Balanced(cuts) ==
    LET L == RangeLengths(cuts)
    IN  /\ \A l \in DOMAIN L : L[l] >= 1
        /\ \A l, m \in DOMAIN L : Abs(L[l] - L[m]) <= 1

\* C19: for every worker count in [1, n_lines] the sections are non-empty
\* and balanced, and so is every range that has been dispatched.
C19_NonEmptyBalancedRanges ==
    /\ \A k \in 1..n_input_lines : Balanced(linspace(n_input_lines, k))
    /\ pc \in {"dispatch", "load", "smooth", "done"} =>
          /\ Len(line_sections) - 1 = Min(n_ray_cores, n_input_lines)
          /\ Balanced(line_sections)
    /\ \A v, w \in Dispatched :
          /\ chunk[w].start_line < chunk[w].stop_line
          /\ Abs((chunk[w].stop_line - chunk[w].start_line)
                 - (chunk[v].stop_line - chunk[v].start_line)) <= 1

\* C19 witness: four lines dispatched to three workers, one range a line
\* longer than another
C19_Witness ==
    /\ AllDispatched /\ n_input_lines = 4 /\ Len(results) = 3
    /\ \E v, w \in Dispatched :
          (chunk[w].stop_line - chunk[w].start_line)
              = (chunk[v].stop_line - chunk[v].start_line) + 1

====
